---- MODULE Spec2Model ----
(***************************************************************************)
(* Model of plugins/cliconf/aoscx.py: the Cliconf adapter for AOS-CX.      *)
(* One caller drives one Cliconf object; every operation forwards to the   *)
(* inherited send_command, whose outcome (a reply or a raised exception)   *)
(* is chosen by the environment.  Texts that the code parses are sequences *)
(* of one-character strings.                                               *)
(***************************************************************************)
EXTENDS Integers, Sequences, FiniteSets, TLC

VARIABLES pc, op, args, todo, sent, outcomes, responses, device_info, result

vars == <<pc, op, args, todo, sent, outcomes, responses, device_info, result>>

(***************************************************************************)
(* Bounds of the model.                                                    *)
(***************************************************************************)
MaxCmds == 2
MaxFrags == 4

(***************************************************************************)
(* Python values.                                                          *)
(***************************************************************************)
None == [type |-> "NoneType"]
Str(s) == [type |-> "str", s |-> s]
Text(cs) == [type |-> "text", chars |-> cs]
Bytes(cs) == [type |-> "bytes", chars |-> cs]
List(items) == [type |-> "list", items |-> items]
Mapping(command, prompt, answer) ==
    [type |-> "Mapping", command |-> command, prompt |-> prompt, answer |-> answer]
Exception(class, message, hasErr, err) ==
    [type |-> "exception", class |-> class, message |-> message,
     hasErr |-> hasErr, err |-> err]

Returned(v) == [kind |-> "return", value |-> v]
Raised(e) == [kind |-> "raise", exc |-> e]
NoResult == [kind |-> "none"]

Reply(v) == [kind |-> "reply", value |-> v]
Failure(e) == [kind |-> "raise", exc |-> e]

(***************************************************************************)
(* Imported helpers, modelled by what they do.                             *)
(***************************************************************************)
\* to_list: a list stays a list, None becomes the empty list, any other
\* value becomes a one-element list.
to_list(val) ==
    IF val.type = "list" THEN val.items
    ELSE IF val # None THEN <<val>>
    ELSE <<>>

\* bytes.decode("utf-8", "surrogateescape"): an ASCII byte is the character
\* of the same code, an undecodable byte becomes a lone surrogate.
DecodeByte(b) == IF b = "xFF" THEN "uDCFF" ELSE b

Decode(bs) == [i \in 1..Len(bs) |-> DecodeByte(bs[i])]

\* to_text(obj, errors="surrogate_or_strict"): text is returned as it is,
\* bytes are decoded, any other object is rendered by str().
to_text(obj) ==
    IF obj.type = "text" THEN obj
    ELSE IF obj.type = "bytes" THEN Text(Decode(obj.chars))
    ELSE Text(obj.message)

\* The call that reaches send_command.
SendCall(command, prompt, answer) ==
    [command |-> command, prompt |-> prompt, answer |-> answer]

\* CliconfBase.invalid_params, a method of the host's base class: its result
\* is opaque to the plugin and carries the message it was given.
invalid_params(msg) == [type |-> "invalid_params", msg |-> msg]

(***************************************************************************)
(* get_config                                                              *)
(***************************************************************************)
\* A third source taken for a valid one.
ValidSourcesWide == {"running", "startup", "candidate"}

ValidSources == {"running", "startup"}

\* The two commands exchanged.
ConfigCommandSwapped(source) ==
    IF source = "running" THEN "show configuration" ELSE "show running-config all"

ConfigCommand(source) ==
    IF source = "running" THEN "show running-config all" ELSE "show configuration"

InvalidSourceMessage(source) ==
    <<"fetching configuration from ", source, " is not supported">>

(***************************************************************************)
(* edit_config                                                             *)
(***************************************************************************)
\* The closing "end" sent before the lines.
EditConfigSequenceEarlyEnd(command) ==
    <<Str("configure terminal"), Str("end")>> \o to_list(command)

\* chain(["configure terminal"], to_list(command), ["end"])
EditConfigSequence(command) ==
    <<Str("configure terminal")>> \o to_list(command) \o <<Str("end")>>

\* A failure swallowed, the loop going on.
EditConfigSwallows(outcome) == FALSE

\* self.send_command(cmd) stands in no try block: whatever it raises leaves
\* the loop and the function.
EditConfigRaises(outcome) == outcome.kind = "raise"

(***************************************************************************)
(* get                                                                     *)
(***************************************************************************)
get(command) == SendCall(command, None, None)

(***************************************************************************)
(* run_commands                                                            *)
(***************************************************************************)
\* The check of commands left out.
CommandsNeverMissing(commands) == FALSE

CommandsMissing(commands) == commands = None

\* if not isinstance(cmd, Mapping): cmd = {"command": cmd}; send_command(**cmd)
CommandCall(cmd) ==
    IF cmd.type = "Mapping" THEN SendCall(cmd.command, cmd.prompt, cmd.answer)
    ELSE SendCall(cmd.s, None, None)

\* except AnsibleConnectionFailure
Caught(exception) == exception.class = "AnsibleConnectionFailure"

\* The err attribute ignored.
FailureOutNoErr(exception) == exception

\* getattr(exception, "err", exception)
FailureOut(exception) == IF exception.hasErr THEN exception.err ELSE exception

\* A connection failure that always ends the batch.
RunCommandsAlwaysRaises(outcome, check_rc) == outcome.kind = "raise"

\* The exception of send_command leaves run_commands: it is not the class the
\* except clause names, or check_rc asks for the raise.
RunCommandsRaises(outcome, check_rc) ==
    outcome.kind = "raise" /\ (~Caught(outcome.exc) \/ check_rc)

\* out, as appended to responses.
ResponseOf(outcome) ==
    to_text(IF outcome.kind = "raise" THEN FailureOut(outcome.exc) ELSE outcome.value)

(***************************************************************************)
(* Text handling used by get_device_info.                                  *)
(***************************************************************************)
Whitespace == {" ", "\n", "\t", "\r"}
Newline == {"\n"}

RECURSIVE lstrip(_)
lstrip(s) == IF s # <<>> /\ Head(s) \in Whitespace THEN lstrip(Tail(s)) ELSE s

RECURSIVE rstrip(_)
rstrip(s) ==
    IF s # <<>> /\ s[Len(s)] \in Whitespace THEN rstrip(SubSeq(s, 1, Len(s) - 1)) ELSE s

\* str.strip()
strip(s) == rstrip(lstrip(s))

\* to_text(reply, errors="surrogate_or_strict").strip()
Data(reply) == strip(to_text(reply).chars)

KwVersion == <<"V", "e", "r", "s", "i", "o", "n", " ">>
KwModel == <<"M", "O", "D", "E", "L", ":", " ">>
KwModelEnd == <<")", ",">>
KwHostname == <<"H", "o", "s", "t", "n", "a", "m", "e", " ", "i", "s", " ">>

NoMatch == [matched |-> FALSE]
Match(group1) == [matched |-> TRUE, group1 |-> group1]

\* The literal lit stands in s at position i.
Literal(s, i, lit) ==
    /\ i + Len(lit) - 1 <= Len(s)
    /\ SubSeq(s, i, i + Len(lit) - 1) = lit

\* Greedy repetition: the number of characters from position i on that are
\* not in excl.
RECURSIVE Run(_, _, _)
Run(s, i, excl) ==
    IF i <= Len(s) /\ s[i] \notin excl THEN 1 + Run(s, i + 1, excl) ELSE 0

\* ^ under re.M: the start of the text or just after a newline.
LineStart(s, i) == i = 1 \/ s[i - 1] = "\n"

\* A lazy \S+?: one character taken.
VersionAtLazy(s, i) ==
    LET p == i + Len(KwVersion)
        n == Run(s, p, Whitespace)
    IN  IF Literal(s, i, KwVersion) /\ n >= 1
        THEN Match(SubSeq(s, p, p))
        ELSE NoMatch

\* r"Version (\S+)" tried at position i.
VersionAt(s, i) ==
    LET p == i + Len(KwVersion)
        n == Run(s, p, Whitespace)
    IN  IF Literal(s, i, KwVersion) /\ n >= 1
        THEN Match(SubSeq(s, p, p + n - 1))
        ELSE NoMatch

\* (\S+)\), backtracking: the longest k <= n such that ")," follows the
\* k characters taken from position p; 0 when there is none.
RECURSIVE Backtrack(_, _, _)
Backtrack(s, p, k) ==
    IF k < 1 THEN 0
    ELSE IF Literal(s, p + k, KwModelEnd) THEN k
    ELSE Backtrack(s, p, k - 1)

\* r"^MODEL: (\S+)\)," with re.M tried at position i.
ModelAt(s, i) ==
    LET p == i + Len(KwModel)
        k == Backtrack(s, p, Run(s, p, Whitespace))
    IN  IF LineStart(s, i) /\ Literal(s, i, KwModel) /\ k >= 1
        THEN Match(SubSeq(s, p, p + k - 1))
        ELSE NoMatch

\* (\S+) in place of (.+).
HostnameAtWord(s, i) ==
    LET p == i + Len(KwHostname)
        n == Run(s, p, Whitespace)
    IN  IF LineStart(s, i) /\ Literal(s, i, KwHostname) /\ n >= 1
        THEN Match(SubSeq(s, p, p + n - 1))
        ELSE NoMatch

\* r"^Hostname is (.+)" with re.M tried at position i.
HostnameAt(s, i) ==
    LET p == i + Len(KwHostname)
        n == Run(s, p, Newline)
    IN  IF LineStart(s, i) /\ Literal(s, i, KwHostname) /\ n >= 1
        THEN Match(SubSeq(s, p, p + n - 1))
        ELSE NoMatch

\* re.search: the match at the leftmost position that has one.
RECURSIVE SearchVersion(_, _)
SearchVersion(s, i) ==
    IF i > Len(s) THEN NoMatch
    ELSE IF VersionAt(s, i).matched THEN VersionAt(s, i)
    ELSE SearchVersion(s, i + 1)

RECURSIVE SearchModel(_, _)
SearchModel(s, i) ==
    IF i > Len(s) THEN NoMatch
    ELSE IF ModelAt(s, i).matched THEN ModelAt(s, i)
    ELSE SearchModel(s, i + 1)

RECURSIVE SearchHostname(_, _)
SearchHostname(s, i) ==
    IF i > Len(s) THEN NoMatch
    ELSE IF HostnameAt(s, i).matched THEN HostnameAt(s, i)
    ELSE SearchHostname(s, i + 1)

\* device_info[key] = value
Put(d, key, value) ==
    [k \in DOMAIN d \cup {key} |-> IF k = key THEN value ELSE d[k]]

\* The key stored whether the pattern matched or not.
PutAlways(d, key, match) ==
    Put(d, key, IF match.matched THEN match.group1 ELSE <<>>)

\* if match: device_info[key] = match.group(1)
PutIfMatch(d, key, match) ==
    IF match.matched THEN Put(d, key, match.group1) ELSE d

EmptyDict == [k \in {} |-> <<>>]

Aruba == <<"a", "r", "u", "b", "a">>

\* device_info = {}; device_info["network_os"] = "aruba"
NewDeviceInfo == Put(EmptyDict, "network_os", Aruba)

\* The version and the model taken from the reply to "show version".
DeviceInfoFromVersion(d, reply) ==
    LET data == Data(reply)
        d1 == PutIfMatch(d, "network_os_version", SearchVersion(data, 1))
    IN  PutIfMatch(d1, "network_os_model", SearchModel(data, 1))

\* The rest of get_device_info: the hostname taken from the reply to
\* "show hostname".
DeviceInfoFromHostname(d, reply) ==
    PutIfMatch(d, "network_os_hostname", SearchHostname(Data(reply), 1))

(***************************************************************************)
(* The environment: arguments the caller may pass and outcomes send_command *)
(* may have.                                                               *)
(***************************************************************************)
Sources == {"running", "startup", "candidate", "RUNNING", ""}
Flags == {None, List(<<Str("all")>>)}
Formats == {"text", "json"}

ConfigLines == {Str("vlan 10"), Str("no shutdown")}
CommandItems ==
    {Str("show vlan"), Str("show clock"), Mapping("erase startup-config", "y/n", "y")}

\* All sequences over S of length at most n.
SeqsUpTo(S, n) == UNION {[1..k -> S] : k \in 0..n}

\* None, one item, or a list of at most MaxCmds items.
Batches(S) == {None} \cup S \cup {List(items) : items \in SeqsUpTo(S, MaxCmds)}

MsgTimeout == <<"t", "i", "m", "e", "o", "u", "t">>
MsgClosed == <<"c", "l", "o", "s", "e", "d">>

Exceptions ==
    {Exception("AnsibleConnectionFailure", MsgTimeout, FALSE, None),
     Exception("AnsibleConnectionFailure", MsgTimeout, TRUE, Text(MsgClosed)),
     Exception("AnsibleConnectionFailure", MsgTimeout, TRUE, Bytes(<<"e", "xFF">>)),
     Exception("KeyError", MsgClosed, FALSE, None)}

Replies == {Text(<<"o", "k">>), Bytes(<<"o", "k", "xFF">>), Text(<<>>)}

Outcomes(replies) == {Reply(r) : r \in replies} \cup {Failure(e) : e \in Exceptions}

V1009 == <<"1", "0", ".", "0", "9">>
Sw1 == <<"s", "w", "1">>

VersionFrags == {KwVersion, KwModel, KwModelEnd, V1009, <<" ">>, <<"\n">>}
HostnameFrags == {KwHostname, Sw1, <<" ">>, <<"\n">>}

RECURSIVE Flatten(_)
Flatten(fs) == IF fs = <<>> THEN <<>> ELSE Head(fs) \o Flatten(Tail(fs))

\* Replies made of at most n fragments.
FragReplies(frags, n) == {Text(Flatten(fs)) : fs \in SeqsUpTo(frags, n)}

VersionReplies ==
    {Text(KwVersion \o V1009),
     Bytes(<<"\n">> \o KwModel \o V1009 \o KwModelEnd \o <<"\n">> \o KwVersion \o V1009 \o <<"\n">>),
     Text(<<" ">> \o KwModel \o V1009 \o KwModelEnd),
     Text(KwHostname \o V1009 \o <<"\n">> \o KwVersion \o V1009)}

HostnameReplies ==
    {Text(KwHostname \o Sw1),
     Bytes(<<" ">> \o KwHostname \o Sw1 \o <<" ", "\n">>),
     Text(Sw1 \o <<"\n">> \o KwHostname \o Sw1 \o <<" ", "\n">> \o Sw1),
     Text(KwHostname),
     Text(<<>>)}

(***************************************************************************)
(* The state machine.                                                      *)
(***************************************************************************)
Init ==
    /\ pc = "idle"
    /\ op = "none"
    /\ args = None
    /\ todo = <<>>
    /\ sent = <<>>
    /\ outcomes = <<>>
    /\ responses = <<>>
    /\ device_info = EmptyDict
    /\ result = NoResult

\* The caller is between two calls.
Callable == pc \in {"idle", "done"}

\* One send_command call with its outcome.
Send(call, outcome) ==
    /\ sent' = Append(sent, call)
    /\ outcomes' = Append(outcomes, outcome)

\* get_config(source, flags, format)
GetConfig ==
    /\ Callable
    /\ \E source \in Sources, flags \in Flags, format \in Formats :
        /\ op' = "get_config"
        /\ args' = [source |-> source, flags |-> flags, format |-> format]
        /\ \/ /\ source \notin ValidSources
              /\ result' = Returned(invalid_params(InvalidSourceMessage(source)))
              /\ sent' = <<>>
              /\ outcomes' = <<>>
           \/ /\ source \in ValidSources
              /\ \E outcome \in Outcomes(Replies) :
                    /\ sent' = <<SendCall(ConfigCommand(source), None, None)>>
                    /\ outcomes' = <<outcome>>
                    /\ result' = IF outcome.kind = "raise"
                                 THEN Raised(outcome.exc)
                                 ELSE Returned(outcome.value)
    /\ pc' = "done"
    /\ todo' = <<>>
    /\ responses' = <<>>
    /\ device_info' = EmptyDict

\* edit_config(command): the iterator is built.
CallEditConfig ==
    /\ Callable
    /\ \E command \in Batches(ConfigLines) :
        /\ args' = [command |-> command]
        /\ todo' = EditConfigSequence(command)
    /\ op' = "edit_config"
    /\ pc' = "edit_config"
    /\ sent' = <<>>
    /\ outcomes' = <<>>
    /\ responses' = <<>>
    /\ device_info' = EmptyDict
    /\ result' = NoResult

\* One iteration of the for loop of edit_config, or its end.
EditConfigStep ==
    /\ pc = "edit_config"
    /\ \/ /\ todo # <<>>
          /\ \E outcome \in Outcomes(Replies) :
                /\ Send(CommandCall(Head(todo)), outcome)
                /\ IF EditConfigRaises(outcome)
                   THEN /\ pc' = "done"
                        /\ result' = Raised(outcome.exc)
                        /\ todo' = <<>>
                   ELSE /\ pc' = "edit_config"
                        /\ result' = result
                        /\ todo' = Tail(todo)
       \/ /\ todo = <<>>
          /\ pc' = "done"
          /\ result' = Returned(None)
          /\ UNCHANGED <<todo, sent, outcomes>>
    /\ UNCHANGED <<op, args, responses, device_info>>

\* run_commands(commands, check_rc): the check of commands and the list.
CallRunCommands ==
    /\ Callable
    /\ \E commands \in Batches(CommandItems), check_rc \in BOOLEAN :
        /\ args' = [commands |-> commands, check_rc |-> check_rc]
        /\ IF CommandsMissing(commands)
           THEN /\ pc' = "done"
                /\ todo' = <<>>
                /\ result' = Raised(Exception("ValueError", <<"'commands' value is required">>,
                                              FALSE, None))
           ELSE /\ pc' = "run_commands"
                /\ todo' = to_list(commands)
                /\ result' = NoResult
    /\ op' = "run_commands"
    /\ sent' = <<>>
    /\ outcomes' = <<>>
    /\ responses' = <<>>
    /\ device_info' = EmptyDict

\* One iteration of the for loop of run_commands, or its end.
RunCommandsStep ==
    /\ pc = "run_commands"
    /\ \/ /\ todo # <<>>
          /\ \E outcome \in Outcomes(Replies) :
                /\ Send(CommandCall(Head(todo)), outcome)
                /\ IF RunCommandsRaises(outcome, args.check_rc)
                   THEN /\ pc' = "done"
                        /\ result' = Raised(outcome.exc)
                        /\ todo' = <<>>
                        /\ responses' = responses
                   ELSE /\ pc' = "run_commands"
                        /\ result' = result
                        /\ todo' = Tail(todo)
                        /\ responses' = Append(responses, ResponseOf(outcome))
       \/ /\ todo = <<>>
          /\ pc' = "done"
          /\ result' = Returned(List(responses))
          /\ UNCHANGED <<todo, sent, outcomes, responses>>
    /\ UNCHANGED <<op, args, device_info>>

\* get_device_info(): the mapping is created.
CallGetDeviceInfo ==
    /\ Callable
    /\ op' = "get_device_info"
    /\ args' = None
    /\ pc' = "show_version"
    /\ todo' = <<>>
    /\ sent' = <<>>
    /\ outcomes' = <<>>
    /\ responses' = <<>>
    /\ device_info' = NewDeviceInfo
    /\ result' = NoResult

\* get_device_info from self.get("show version") to the model.
ShowVersionStep(replies) ==
    /\ pc = "show_version"
    /\ \E outcome \in Outcomes(replies) :
        /\ Send(get("show version"), outcome)
        /\ IF outcome.kind = "raise"
           THEN /\ pc' = "done"
                /\ result' = Raised(outcome.exc)
                /\ device_info' = device_info
           ELSE /\ pc' = "show_hostname"
                /\ result' = result
                /\ device_info' = DeviceInfoFromVersion(device_info, outcome.value)
    /\ UNCHANGED <<op, args, todo, responses>>

\* get_device_info from self.get("show hostname") to the return.
ShowHostnameStep(replies) ==
    /\ pc = "show_hostname"
    /\ \E outcome \in Outcomes(replies) :
        /\ Send(get("show hostname"), outcome)
        /\ IF outcome.kind = "raise"
           THEN /\ result' = Raised(outcome.exc)
                /\ device_info' = device_info
           ELSE /\ device_info' = DeviceInfoFromHostname(device_info, outcome.value)
                /\ result' = Returned(DeviceInfoFromHostname(device_info, outcome.value))
    /\ pc' = "done"
    /\ UNCHANGED <<op, args, todo, responses>>

ShowVersion == ShowVersionStep(VersionReplies)
ShowHostname == ShowHostnameStep(HostnameReplies)
ShowVersionAny == ShowVersionStep(FragReplies(VersionFrags, MaxFrags))
ShowHostnameAny == ShowHostnameStep(FragReplies(HostnameFrags, MaxFrags))
ShowVersionShort == ShowVersionStep(FragReplies(VersionFrags, MaxFrags - 1))
ShowHostnameShort == ShowHostnameStep(FragReplies(HostnameFrags, MaxFrags - 1))

Next ==
    \/ GetConfig
    \/ CallEditConfig
    \/ EditConfigStep
    \/ CallRunCommands
    \/ RunCommandsStep
    \/ CallGetDeviceInfo
    \/ ShowVersion
    \/ ShowHostname

Spec == Init /\ [][Next]_vars

\* get_device_info alone, over every "show version" reply of the bound.
NextVersion == CallGetDeviceInfo \/ ShowVersionAny \/ ShowHostname

SpecVersion == Init /\ [][NextVersion]_vars

\* get_device_info alone, over every "show hostname" reply of the bound.
NextHostname == CallGetDeviceInfo \/ ShowVersion \/ ShowHostnameAny

SpecHostname == Init /\ [][NextHostname]_vars

\* get_device_info alone, over every pair of shorter replies.
NextInfo == CallGetDeviceInfo \/ ShowVersionShort \/ ShowHostnameShort

SpecInfo == Init /\ [][NextInfo]_vars

(***************************************************************************)
(* Notions the properties are stated with.                                 *)
(***************************************************************************)
\* The commands of a batch as the caller gave them: a list, or one item.
GivenItems(batch) ==
    IF batch = None THEN <<>>
    ELSE IF batch.type = "list" THEN batch.items
    ELSE <<batch>>

\* The command text of an item of a batch.
CommandText(item) == IF item.type = "Mapping" THEN item.command ELSE item.s

CommandsSent == [i \in 1..Len(sent) |-> sent[i].command]

ConnectionFailure(outcome) ==
    outcome.kind = "raise" /\ outcome.exc.class = "AnsibleConnectionFailure"

\* The text a tolerated connection failure leaves in the responses.
FailureText(e) == IF e.hasErr THEN to_text(e.err) ELSE Text(e.message)

\* What response i must be for outcome i of a tolerant batch.
ExpectedResponse(outcome) ==
    IF outcome.kind = "raise" THEN FailureText(outcome.exc) ELSE to_text(outcome.value)

SentThenEnded(k) == k = Len(sent) /\ pc = "done"

\* C1: for a source other than "running" and "startup", whatever flags and
\* format are, get_config returns the result of invalid_params and sends no
\* command.
C1_InvalidSourceRejected ==
    (op = "get_config" /\ pc = "done" /\ args.source \notin {"running", "startup"})
        => /\ result.kind = "return"
           /\ result.value.type = "invalid_params"
           /\ result.value.msg =
                <<"fetching configuration from ", args.source, " is not supported">>
           /\ sent = <<>>

C1_Witness ==
    /\ op = "get_config" /\ pc = "done"
    /\ args.source = "candidate" /\ args.flags # None /\ args.format = "json"
    /\ result.kind = "return" /\ sent = <<>>

\* C2: get_config sends exactly one command, "show running-config all" for
\* source "running" and "show configuration" for source "startup", and
\* returns the reply of that call unchanged, whatever flags and format are.
C2_ConfigCommandAndReply ==
    (op = "get_config" /\ pc = "done" /\ args.source \in {"running", "startup"})
        => /\ Len(sent) = 1
           /\ args.source = "running" => sent[1].command = "show running-config all"
           /\ args.source = "startup" => sent[1].command = "show configuration"
           /\ outcomes[1].kind = "reply" => result = Returned(outcomes[1].value)

C2_Witness ==
    /\ op = "get_config" /\ pc = "done"
    /\ args.source = "startup" /\ args.flags # None /\ args.format = "json"
    /\ CommandsSent = <<"show configuration">>
    /\ outcomes[1].kind = "reply" /\ outcomes[1].value.type = "bytes"
    /\ result = Returned(outcomes[1].value)

\* C3: when send_command raises a connection failure in run_commands, then
\* with check_rc false no connection failure propagates and the response of
\* that command is the failure's text (of err if the exception has it, of
\* the exception otherwise); with check_rc true the exception propagates, no
\* response list is returned and no later command is sent.
C3_ConnectionFailureHandling ==
    op = "run_commands" =>
        \A i \in 1..Len(outcomes) :
            ConnectionFailure(outcomes[i]) =>
                IF args.check_rc
                THEN /\ SentThenEnded(i)
                     /\ result = Raised(outcomes[i].exc)
                ELSE /\ result.kind = "raise" => ~ConnectionFailure(result)
                     /\ Len(responses) >= i
                     /\ responses[i] = FailureText(outcomes[i].exc)
                     /\ pc = "done" /\ result.kind = "return"
                            => result.value.items[i] = FailureText(outcomes[i].exc)

C3_Witness ==
    /\ op = "run_commands" /\ pc = "done" /\ ~args.check_rc
    /\ Len(outcomes) = 2
    /\ ConnectionFailure(outcomes[1]) /\ outcomes[1].exc.hasErr
    /\ outcomes[1].exc.err.type = "bytes"
    /\ ConnectionFailure(outcomes[2]) /\ ~outcomes[2].exc.hasErr
    /\ result.kind = "return"

\* C4: with check_rc false and no failure other than connection failures,
\* run_commands sends each command of the batch once, in the given order,
\* and returns as many responses as commands, response i being the reply or
\* the failure text of command i; a failure does not stop the later commands.
C4_OneResponsePerCommand ==
    (/\ op = "run_commands" /\ ~args.check_rc /\ args.commands # None
     /\ \A i \in 1..Len(outcomes) : outcomes[i].kind = "raise" => ConnectionFailure(outcomes[i]))
        => LET given == GivenItems(args.commands) IN
           /\ Len(sent) <= Len(given)
           /\ \A i \in 1..Len(sent) : sent[i].command = CommandText(given[i])
           /\ Len(responses) = Len(sent)
           /\ result.kind # "raise"
           /\ pc = "done" =>
                /\ Len(sent) = Len(given)
                /\ result.kind = "return"
                /\ result.value.type = "list"
                /\ Len(result.value.items) = Len(given)
                /\ \A i \in 1..Len(given) :
                      result.value.items[i] = ExpectedResponse(outcomes[i])

C4_Witness ==
    /\ op = "run_commands" /\ pc = "done" /\ ~args.check_rc
    /\ args.commands.type = "list" /\ Len(args.commands.items) = 2
    /\ args.commands.items[1] # args.commands.items[2]
    /\ ConnectionFailure(outcomes[1]) /\ outcomes[2].kind = "reply"
    /\ result.kind = "return" /\ Len(result.value.items) = 2

\* C5: an edit_config call in which no send_command fails sends
\* "configure terminal", then each given line once in the given order, then
\* "end"; at every moment what was sent is a prefix of that sequence.
C5_EditConfigFrame ==
    op = "edit_config" =>
        LET lines == GivenItems(args.command)
            frame == <<"configure terminal">>
                        \o [i \in 1..Len(lines) |-> lines[i].s] \o <<"end">>
        IN  /\ Len(sent) <= Len(frame)
            /\ CommandsSent = SubSeq(frame, 1, Len(sent))
            /\ (pc = "done" /\ result.kind = "return") => CommandsSent = frame

C5_Witness ==
    /\ op = "edit_config" /\ pc = "done" /\ result = Returned(None)
    /\ args.command.type = "list" /\ Len(args.command.items) = 2
    /\ args.command.items[1] # args.command.items[2]
    /\ Len(sent) = 4

\* C9: when send_command raises on the k-th command of edit_config, the
\* exception propagates and nothing after the k-th command is sent; a
\* failure before the final command leaves "end" unsent.
C9_EditConfigStopsAtFailure ==
    op = "edit_config" =>
        \A k \in 1..Len(outcomes) :
            outcomes[k].kind = "raise" =>
                /\ SentThenEnded(k)
                /\ result = Raised(outcomes[k].exc)
                /\ k < Len(GivenItems(args.command)) + 2
                      => \A i \in 1..Len(sent) : sent[i].command # "end"

C9_Witness ==
    /\ op = "edit_config" /\ pc = "done"
    /\ args.command.type = "list" /\ Len(args.command.items) = 2
    /\ Len(sent) = 2 /\ outcomes[2].kind = "raise"
    /\ result.kind = "raise"

\* C10: run_commands with commands None raises ValueError for either value
\* of check_rc, with no command sent and no response list returned.
C10_MissingCommandsRaise ==
    (op = "run_commands" /\ args.commands = None)
        => /\ pc = "done"
           /\ result.kind = "raise"
           /\ result.exc.class = "ValueError"
           /\ sent = <<>>
           /\ responses = <<>>

C10_Witness ==
    /\ op = "run_commands" /\ args.commands = None /\ ~args.check_rc
    /\ result.kind = "raise"

(***************************************************************************)
(* get_device_info: what the patterns say, stated without the search.      *)
(***************************************************************************)
VersionKey == "network_os_version"
ModelKey == "network_os_model"
HostnameKey == "network_os_hostname"

Replied(n) == Len(outcomes) >= n /\ outcomes[n].kind = "reply"

\* The stripped text of the n-th reply.
ReplyData(n) == Data(outcomes[n].value)

NonSpaceAt(s, j) == j <= Len(s) /\ s[j] \notin Whitespace

\* v is the run of non-whitespace characters of s that starts at p.
RunAt(s, p, v) ==
    /\ p + Len(v) - 1 <= Len(s)
    /\ \A j \in 1..Len(v) : s[p + j - 1] = v[j] /\ v[j] \notin Whitespace
    /\ ~NonSpaceAt(s, p + Len(v))

\* v is what is left of the line of s from p on.
RestOfLine(s, p, v) ==
    /\ p + Len(v) - 1 <= Len(s)
    /\ \A j \in 1..Len(v) : s[p + j - 1] = v[j] /\ v[j] # "\n"
    /\ p + Len(v) <= Len(s) => s[p + Len(v)] = "\n"

VersionOccurs(s, i) == Literal(s, i, KwVersion)

\* "Version " stands at i with a non-whitespace character right after it.
VersionMatchable(s, i) ==
    VersionOccurs(s, i) /\ NonSpaceAt(s, i + Len(KwVersion))

\* "MODEL: " opens a line at i, followed by k non-whitespace characters and ")," .
ModelMatchable(s, i, k) ==
    /\ LineStart(s, i) /\ Literal(s, i, KwModel)
    /\ \A j \in 0..(k - 1) : NonSpaceAt(s, i + Len(KwModel) + j)
    /\ Literal(s, i + Len(KwModel) + k, KwModelEnd)

HostnameLine(s, i) == LineStart(s, i) /\ Literal(s, i, KwHostname)

\* A line that begins with "Hostname is " and goes on.
HostnameMatchable(s, i) ==
    /\ HostnameLine(s, i)
    /\ i + Len(KwHostname) <= Len(s)
    /\ s[i + Len(KwHostname)] # "\n"

HasVersion(s) == \E i \in 1..Len(s) : VersionMatchable(s, i)
HasModel(s) == \E i \in 1..Len(s), k \in 1..Len(s) : ModelMatchable(s, i, k)
HasHostname(s) == \E i \in 1..Len(s) : HostnameMatchable(s, i)

First(P(_, _), s, i) == P(s, i) /\ \A j \in 1..(i - 1) : ~P(s, j)

\* C6: in the mapping of get_device_info each of network_os_version,
\* network_os_model and network_os_hostname is present exactly when its
\* pattern matched the stripped text of its reply; an unmatched field is
\* absent, no field is empty, the call returns the mapping, and network_os is
\* always "aruba".
C6_FieldsPresentIffMatched ==
    op = "get_device_info" =>
        /\ DOMAIN device_info \subseteq {"network_os", VersionKey, ModelKey, HostnameKey}
        /\ "network_os" \in DOMAIN device_info
        /\ device_info["network_os"] = Aruba
        /\ \A k \in DOMAIN device_info : device_info[k] # <<>>
        /\ Replied(1) =>
            /\ VersionKey \in DOMAIN device_info <=> HasVersion(ReplyData(1))
            /\ ModelKey \in DOMAIN device_info <=> HasModel(ReplyData(1))
        /\ HostnameKey \in DOMAIN device_info
              <=> (Replied(1) /\ Replied(2) /\ HasHostname(ReplyData(2)))
        /\ (pc = "done" /\ Replied(1) /\ Replied(2)) => result = Returned(device_info)

C6_Witness ==
    /\ op = "get_device_info" /\ pc = "done" /\ result.kind = "return"
    /\ DOMAIN result.value = {"network_os", VersionKey}
    /\ ReplyData(1) # <<>> /\ ReplyData(2) # <<>>
    /\ \E i \in 1..Len(ReplyData(1)) : Literal(ReplyData(1), i, KwModel)
    /\ \E i \in 1..Len(ReplyData(2)) : Literal(ReplyData(2), i, KwHostname)

\* C7 as stated: network_os_version is the run of non-whitespace characters
\* after the first occurrence of "Version " in the reply.
C7_AfterFirstOccurrence ==
    (op = "get_device_info" /\ Replied(1) /\ VersionKey \in DOMAIN device_info)
        => \A i \in 1..Len(ReplyData(1)) :
              First(VersionOccurs, ReplyData(1), i)
                 => RunAt(ReplyData(1), i + Len(KwVersion), device_info[VersionKey])

\* C7: network_os_version is the run of non-whitespace characters after the
\* first occurrence of "Version " that a non-whitespace character follows,
\* in the stripped text of the reply to "show version"; it is "10.09" when
\* that occurrence is "Version 10.09" up to the end of the line.
C7_AfterFirstMatchableOccurrence ==
    (op = "get_device_info" /\ Replied(1))
        => \A i \in 1..Len(ReplyData(1)) :
              First(VersionMatchable, ReplyData(1), i)
                 => /\ VersionKey \in DOMAIN device_info
                    /\ RunAt(ReplyData(1), i + Len(KwVersion), device_info[VersionKey])
                    /\ (/\ Literal(ReplyData(1), i, KwVersion \o V1009)
                        /\ ~NonSpaceAt(ReplyData(1), i + Len(KwVersion \o V1009)))
                          => device_info[VersionKey] = V1009
                    /\ (pc = "done" /\ Replied(2))
                          => result.value[VersionKey] = device_info[VersionKey]

C7_Witness ==
    /\ op = "get_device_info" /\ pc = "done" /\ result.kind = "return"
    /\ VersionOccurs(ReplyData(1), 1) /\ ~VersionMatchable(ReplyData(1), 1)
    /\ VersionKey \in DOMAIN result.value
    /\ result.value[VersionKey] = V1009

\* C8 as stated: network_os_hostname is what is left of the first line that
\* begins with "Hostname is ".
C8_RestOfFirstLine ==
    (op = "get_device_info" /\ Replied(1) /\ Replied(2)
        /\ HostnameKey \in DOMAIN device_info)
        => \A i \in 1..Len(ReplyData(2)) :
              First(HostnameLine, ReplyData(2), i)
                 => RestOfLine(ReplyData(2), i + Len(KwHostname), device_info[HostnameKey])

\* C8: network_os_hostname is what is left of the first line, of the
\* stripped text of the reply to "show hostname", that begins with
\* "Hostname is " and has something after it: "sw1" for "Hostname is sw1".
\* "show hostname" is sent after "show version", whose reply gives no hostname.
C8_RestOfFirstMatchableLine ==
    op = "get_device_info" =>
        /\ CommandsSent = SubSeq(<<"show version", "show hostname">>, 1, Len(sent))
        /\ ~(Replied(1) /\ Replied(2)) => HostnameKey \notin DOMAIN device_info
        /\ (Replied(1) /\ Replied(2)) =>
            /\ ~HasHostname(ReplyData(2)) => HostnameKey \notin DOMAIN device_info
            /\ \A i \in 1..Len(ReplyData(2)) :
                First(HostnameMatchable, ReplyData(2), i)
                   => /\ HostnameKey \in DOMAIN device_info
                      /\ RestOfLine(ReplyData(2), i + Len(KwHostname),
                                    device_info[HostnameKey])
                      /\ (/\ Literal(ReplyData(2), i, KwHostname \o Sw1)
                          /\ RestOfLine(ReplyData(2), i + Len(KwHostname), Sw1))
                            => device_info[HostnameKey] = Sw1
                      /\ pc = "done" /\ result.value[HostnameKey] = device_info[HostnameKey]

C8_Witness ==
    /\ op = "get_device_info" /\ pc = "done" /\ result.kind = "return"
    /\ HasHostname(ReplyData(1))
    /\ HostnameLine(ReplyData(2), 1) /\ ~HostnameMatchable(ReplyData(2), 1)
    /\ HostnameKey \in DOMAIN result.value
    /\ result.value[HostnameKey] = Sw1
====
